---- MODULE Spec2Model ----
(***************************************************************************)
(* Model of dispatchers/libdispatcher.go: the Dispatcher factory           *)
(* (newDispatcher) and the WeightDispatcher selector (SetProfile,          *)
(* GetInstance, NextConnID, MaxConns, incrNextConnIdx).                    *)
(*                                                                         *)
(* A DispatcherConns value is a Go slice; it is modelled by its header,    *)
(* [arr, len]: arr is the backing array the header points to and len the   *)
(* header's length.  Backing arrays are never written after they are       *)
(* built (Sort writes the profile's array, of which every selector holds a *)
(* Clone), so an array is modelled by its value.  WeightDispatcher objects *)
(* are mutable and handed around by pointer, so they live in a heap of     *)
(* addresses.                                                              *)
(***************************************************************************)
EXTENDS Integers, Sequences, FiniteSets, TLC

\* Longest connection list of a profile.
MaxPool == 2

\* Calls a goroutine makes on the shared selector: NextConnID calls of a
\* caller, GetInstance calls of a worker.
MaxCalls == 1

\* utils.MetaWeight, the one strategy newDispatcher's switch knows.
MetaWeight == "*weight"
Strategies == {MetaWeight, "*random"}

\* Weights a connection can carry, and the ID of the i-th declared connection.
Weights == {10, 20}
ConnIDs == <<"A", "B", "C", "D", "E", "F">>

\* The caller's reference to the long-lived selector, and the per-request
\* clients, each holding the clone it got from GetInstance.
Shared == "shared"
Clients == {"c1", "c2"}
Holders == {Shared} \cup Clients

\* Heap addresses of WeightDispatcher objects; 0 is the nil pointer.
Addrs == 1..Cardinality(Holders)
Home(h) == CASE h = Shared -> 1 [] h = "c1" -> 2 [] OTHER -> 3

(***************************************************************************)
(* engine.DispatcherConns and engine.DispatcherProfile                     *)
(***************************************************************************)
MkSlice(a) == [arr |-> a, len |-> Len(a)]

\* A header whose length does not exceed its backing array; only a header
\* read while it is being written can be otherwise.
WithinArray(s) == s.len <= Len(s.arr)

\* What a load past the end of a backing array can find, when it does not
\* fault: the words of whatever lies there, a connection of some pool or
\* anything else ("?" stands for every string that is no connection's ID).
PastEndIDs == { ConnIDs[i] : i \in 1..MaxPool } \cup {"?"}
PastEnd == { [ID |-> id, Weight |-> w] : id \in PastEndIDs, w \in Weights \cup {0} }

\* conns[i] with i counted from 0 and inside the backing array.
At(s, i) == s.arr[i + 1]

ConnsOfLen(n) ==
    { [i \in 1..n |-> [ID |-> ConnIDs[i], Weight |-> w[i]]] : w \in [1..n -> Weights] }

DeclaredConns(min) == UNION { ConnsOfLen(n) : n \in min..MaxPool }

Profiles(min) ==
    { [Conns |-> MkSlice(a), Strategy |-> s] : a \in DeclaredConns(min), s \in Strategies }

\* Profiles with at least one connection, and those among them that a
\* WeightDispatcher is built from and reconfigured with.
ValidProfiles == Profiles(1)
WeightProfiles == { p \in ValidProfiles : p.Strategy = MetaWeight }

NoProfile == [Conns |-> MkSlice(<<>>), Strategy |-> ""]

RECURSIVE InsertConn(_, _)
InsertConn(sorted, c) ==
    IF sorted = <<>> THEN <<c>>
    ELSE IF Head(sorted).Weight >= c.Weight
         THEN <<Head(sorted)>> \o InsertConn(Tail(sorted), c)
         ELSE <<c>> \o sorted

RECURSIVE SortArr(_)
SortArr(a) ==
    IF a = <<>> THEN <<>>
    ELSE InsertConn(SortArr(SubSeq(a, 1, Len(a) - 1)), a[Len(a)])

\* DispatcherConns.Sort: in place, by weight descending, ties in declared order.
Sort(s) == [s EXCEPT !.arr = SortArr(s.arr)]

\* DispatcherConns.Clone: a new slice of len(s) copied connections.
Clone(s) ==
    MkSlice([i \in 1..s.len |-> [ID |-> At(s, i - 1).ID, Weight |-> At(s, i - 1).Weight]])

\* The slices Clone can return: the copy, or for a header longer than its
\* array the copy of the array followed by what lay past its end.
Clones(s) ==
    IF WithinArray(s) THEN {Clone(s)}
    ELSE { MkSlice([i \in 1..s.len |->
                       IF i <= Len(s.arr) THEN s.arr[i] ELSE j[i - Len(s.arr)]]) :
             j \in [1..(s.len - Len(s.arr)) -> PastEnd] }

(***************************************************************************)
(* WeightDispatcher                                                        *)
(***************************************************************************)
Unlocked == [w |-> FALSE, r |-> 0]

\* The zero value of the struct; a free heap cell holds it.
ZeroWD == [conns |-> MkSlice(<<>>), nextConnIdx |-> 0, mu |-> Unlocked]

\* &WeightDispatcher{conns: c}
NewWD(c) == [conns |-> c, nextConnIdx |-> 0, mu |-> Unlocked]

UnsupportedStrategy(s) == "unsupported dispatch strategy: <" \o s \o ">"

NoErr == ""

\* incrNextConnIdx with the wrap one step late (> len instead of > len-1).
incrNextConnIdxLate(w) ==
    LET n == w.nextConnIdx + 1
    IN  [w EXCEPT !.nextConnIdx = IF n > w.conns.len THEN 0 ELSE n]

incrNextConnIdx(w) ==
    LET n == w.nextConnIdx + 1
    IN  [w EXCEPT !.nextConnIdx = IF n > w.conns.len - 1 THEN 0 ELSE n]

\* newDispatcher without its pfl.Conns.Sort() line.
newDispatcherUnsorted(p) ==
    LET known == p.Strategy = MetaWeight
    IN  [pfl   |-> p,
         d     |-> IF known THEN NewWD(Clone(p.Conns)) ELSE ZeroWD,
         isNil |-> ~known,
         err   |-> IF known THEN NoErr ELSE UnsupportedStrategy(p.Strategy)]

\* newDispatcher whose switch builds a WeightDispatcher in the default case too.
newDispatcherAnyStrategy(p) ==
    LET sorted == Sort(p.Conns)
    IN  [pfl   |-> [p EXCEPT !.Conns = sorted],
         d     |-> NewWD(Clone(sorted)),
         isNil |-> FALSE,
         err   |-> NoErr]

\* The factory: pfl is the caller's profile as the call leaves it, d the
\* selector returned (nil when isNil) and err the error returned.
newDispatcher(p) ==
    LET sorted == Sort(p.Conns)
        known  == p.Strategy = MetaWeight
    IN  [pfl   |-> [p EXCEPT !.Conns = sorted],
         d     |-> IF known THEN NewWD(Clone(sorted)) ELSE ZeroWD,
         isNil |-> ~known,
         err   |-> IF known THEN NoErr ELSE UnsupportedStrategy(p.Strategy)]

\* SetProfile without its wd.nextConnIdx = 0 line.
SetProfileKeepIdx(w, p) ==
    LET sorted == Sort(p.Conns)
    IN  [pfl |-> [p EXCEPT !.Conns = sorted],
         wd  |-> [w EXCEPT !.conns = Clone(sorted)]]

\* SetProfile without its wd.conns = pfl.Conns.Clone() line.
SetProfileKeepConns(w, p) ==
    LET sorted == Sort(p.Conns)
    IN  [pfl |-> [p EXCEPT !.Conns = sorted],
         wd  |-> [w EXCEPT !.nextConnIdx = 0]]

\* SetProfile adding the profile's connections to the pool it holds.
SetProfileAppend(w, p) ==
    LET sorted == Sort(p.Conns)
    IN  [pfl |-> [p EXCEPT !.Conns = sorted],
         wd  |-> [w EXCEPT !.conns = MkSlice(w.conns.arr \o Clone(sorted).arr),
                           !.nextConnIdx = 0]]

\* SetProfile as one call: the profile as the call leaves it, and the selector.
SetProfile(w, p) ==
    LET sorted == Sort(p.Conns)
    IN  [pfl |-> [p EXCEPT !.Conns = sorted],
         wd  |-> [w EXCEPT !.conns = Clone(sorted), !.nextConnIdx = 0]]

\* GetInstance copying the source's cursor into the clone.
GetInstanceKeepIdx(w) == [NewWD(Clone(w.conns)) EXCEPT !.nextConnIdx = w.nextConnIdx]

\* The object GetInstance builds.
GetInstance(w) == NewWD(Clone(w.conns))

\* The objects GetInstance can build from a receiver read while it is written.
GetInstances(w) ==
    IF WithinArray(w.conns) THEN {GetInstance(w)}
    ELSE { NewWD(c) : c \in Clones(w.conns) }

\* The outcomes of the index expression conns[idx].ID on the values loaded:
\* the bounds check panics; past the end of the backing array the load
\* faults or finds anything.
IndexOutcomes(c, i) ==
    IF i < 0 \/ i >= c.len THEN {"panic"}
    ELSE IF i + 1 <= Len(c.arr) THEN {At(c, i).ID}
    ELSE PastEndIDs \cup {"panic"}

\* NextConnID returning the empty identifier, and advancing, where its index
\* expression panics.
NextConnIDSilent(w) ==
    [panic  |-> FALSE,
     connID |-> IF w.nextConnIdx < 0 \/ w.nextConnIdx >= w.conns.len
                THEN "" ELSE At(w.conns, w.nextConnIdx).ID,
     wd     |-> incrNextConnIdx(w)]

\* NextConnID as one call: the index expression panics when the cursor is
\* outside the slice, before anything is written.
NextConnID(w) ==
    IF w.nextConnIdx < 0 \/ w.nextConnIdx >= w.conns.len
    THEN [panic |-> TRUE, connID |-> "", wd |-> w]
    ELSE [panic  |-> FALSE,
          connID |-> At(w.conns, w.nextConnIdx).ID,
          wd     |-> incrNextConnIdx(w)]

MaxConns(w) == w.conns.len

(***************************************************************************)
(* State                                                                   *)
(***************************************************************************)
VARIABLES
    heap,   \* address -> WeightDispatcher object (ZeroWD in a free cell)
    ref,    \* holder -> address of the selector it holds, 0 for nil
    pfl,    \* the caller's profile object, as the last call given it left it
    fac,    \* the last newDispatcher call: its strategy and what it returned
    log,    \* address -> history of the object: how it was configured, from
            \* which declared connections, and what NextConnID returned since
    pc,     \* thread -> where it is in the call it is making
    loc,    \* thread -> the values it has loaded
    gens,   \* the declared connections of every profile applied to the
            \* shared selector
    tag     \* which generation wrote each word of the shared selector

vars == <<heap, ref, pfl, fac, log, pc, loc, gens, tag>>

Workers == Clients
Callers == {"n1", "n2"}
Config  == "cfg"
Configs == {Config, "cfg2"}
Threads == Workers \cup Callers \cup Configs

NoFac == [strategy |-> "", d |-> 0, err |-> NoErr]
NoLog == [by |-> "", decl |-> <<>>, rets |-> <<>>, last |-> ""]
NoLoc == [conns |-> MkSlice(<<>>), idx |-> 0, tmp |-> 0, ret |-> "",
          garr |-> 0, glen |-> 0, gidx |-> 0, pfl |-> NoProfile, decl |-> <<>>,
          calls |-> 0, late |-> FALSE, need |-> {}]
NoTag == [arr |-> 0, len |-> 0, idx |-> 0]

\* How many return values the history of an object keeps: a whole rotation
\* and the wraparound after newDispatcher, the first call otherwise.
RetsCap(by) == IF by = "newDispatcher" THEN MaxPool + 1 ELSE 1

Configured(by, p) == [by |-> by, decl |-> p, rets |-> <<>>, last |-> ""]

\* The address of a newly allocated object: one that no other holder refers to.
Fresh(h) ==
    IF \A g \in Holders \ {h} : ref[g] # Home(h)
    THEN Home(h)
    ELSE CHOOSE a \in Addrs : \A g \in Holders : ref[g] # a

\* GetInstance returning wd, the receiver, instead of wdInst.
InstanceAddrReceiver(c) == ref[Shared]

\* The pointer GetInstance returns: wdInst, the object it has just allocated.
InstanceAddr(c) == Fresh(c)

Init ==
    /\ heap = [a \in Addrs |-> ZeroWD]
    /\ ref = [h \in Holders |-> 0]
    /\ pfl = NoProfile
    /\ fac = NoFac
    /\ log = [a \in Addrs |-> NoLog]
    /\ pc = [t \in Threads |-> "idle"]
    /\ loc = [t \in Threads |-> NoLoc]
    /\ gens = {}
    /\ tag = NoTag

(***************************************************************************)
(* Calls made one at a time                                                *)
(***************************************************************************)
\* The caller constructs its long-lived selector and keeps it when the
\* factory returns one.
NewDispatcherCall(p) ==
    /\ ref[Shared] = 0
    /\ LET r == newDispatcher(p)
           a == Fresh(Shared)
       IN  /\ pfl' = r.pfl
           /\ fac' = [strategy |-> p.Strategy,
                      d        |-> IF r.isNil THEN 0 ELSE a,
                      err      |-> r.err]
           /\ ref' = IF r.isNil THEN ref ELSE [ref EXCEPT ![Shared] = a]
           /\ heap' = IF r.isNil THEN heap ELSE [heap EXCEPT ![a] = r.d]
           /\ log' = IF r.isNil THEN log
                     ELSE [log EXCEPT ![a] = Configured("newDispatcher", p.Conns.arr)]
    /\ UNCHANGED <<pc, loc, gens, tag>>

SetProfileCall(p) ==
    /\ ref[Shared] # 0
    /\ LET a == ref[Shared]
           r == SetProfile(heap[a], p)
       IN  /\ log' = [log EXCEPT ![a] = Configured("SetProfile", p.Conns.arr)]
           /\ pfl' = r.pfl
           /\ heap' = [heap EXCEPT ![a] = r.wd]
    /\ UNCHANGED <<ref, fac, pc, loc, gens, tag>>

\* GetInstance rewinding the cursor of its receiver.
GetInstanceCallRewinding(c) ==
    /\ ref[Shared] # 0
    /\ LET src == ref[Shared]
           a   == InstanceAddr(c)
       IN  /\ ref' = [ref EXCEPT ![c] = a]
           /\ heap' = [heap EXCEPT ![a] = GetInstance(heap[src]),
                                   ![src].nextConnIdx = 0]
           /\ log' = [log EXCEPT ![a] = Configured("GetInstance", log[src].decl)]
    /\ UNCHANGED <<pfl, fac, pc, loc, gens, tag>>

GetInstanceCall(c) ==
    /\ ref[Shared] # 0
    /\ LET src == ref[Shared]
           a   == InstanceAddr(c)
       IN  /\ ref' = [ref EXCEPT ![c] = a]
           /\ heap' = [heap EXCEPT ![a] = GetInstance(heap[src])]
           /\ log' = [log EXCEPT ![a] = Configured("GetInstance", log[src].decl)]
    /\ UNCHANGED <<pfl, fac, pc, loc, gens, tag>>

Returned(r) == IF r.panic THEN "panic" ELSE r.connID

\* A holder that is a thread makes one call at a time.
Idle(h) == h \in Threads => pc[h] = "idle"

NextConnIDCall(h) ==
    /\ ref[h] # 0
    /\ Idle(h)
    /\ LET a == ref[h]
           r == NextConnID(heap[a])
       IN  /\ heap' = [heap EXCEPT ![a] = r.wd]
           /\ log' = [log EXCEPT
                         ![a].rets = IF Len(@) < RetsCap(log[a].by)
                                     THEN Append(@, Returned(r)) ELSE @,
                         ![a].last = Returned(r)]
    /\ UNCHANGED <<ref, pfl, fac, pc, loc, gens, tag>>

Next ==
    \/ \E p \in ValidProfiles : NewDispatcherCall(p)
    \/ \E p \in WeightProfiles : SetProfileCall(p)
    \/ \E c \in Clients : GetInstanceCall(c)
    \/ \E h \in Holders : NextConnIDCall(h)

Spec == Init /\ [][Next]_vars

\* Every profile a caller can hand in, the ones with no connection included.
AnyProfiles == Profiles(0)
AnyWeightProfiles == { p \in AnyProfiles : p.Strategy = MetaWeight }

\* The calls of one caller and one client, whatever the profile's length.
AnyNext ==
    \/ \E p \in AnyProfiles : NewDispatcherCall(p)
    \/ \E p \in AnyWeightProfiles : SetProfileCall(p)
    \/ GetInstanceCall("c1")
    \/ \E h \in {Shared, "c1"} : NextConnIDCall(h)

AnySpec == Init /\ [][AnyNext]_vars

(***************************************************************************)
(* Calls made by concurrent threads, one memory access at a time.  The     *)
(* configuration thread makes one SetProfile call on the shared selector;  *)
(* a worker calls GetInstance on it and NextConnID on the clone it owns;   *)
(* a caller calls NextConnID on the shared selector itself.  An access     *)
(* that races with a write sees whatever is in memory at that moment: the  *)
(* two words of the slice header are stored one at a time, in either order.*)
(* A panic unwinds the goroutine it happens in (pc "panic"); the others go *)
(* on for as long as the process lives.                                    *)
(***************************************************************************)
Src == ref[Shared]

Goto(t, l) == pc' = [pc EXCEPT ![t] = l]

\* What a thread holds between two calls: the count of the calls it has made.
Returns(t) == [NoLoc EXCEPT !.calls = loc[t].calls]

\* sync.RWMutex: Lock announces the writer (w) and then waits for the
\* readers inside to leave (r = 0); RLock waits while a writer is announced.
\* The lock is free when neither holds.
RLockFree(m) == ~m.w
WLockFree(m) == ~m.w /\ m.r = 0

\* The state once the caller has built the shared selector from a profile
\* of ps.
BuiltFrom(ps) ==
    \E p0 \in ps :
        LET r == newDispatcher(p0)
            a == Home(Shared)
        IN  /\ heap = [x \in Addrs |-> IF x = a THEN r.d ELSE ZeroWD]
            /\ ref = [h \in Holders |-> IF h = Shared THEN a ELSE 0]
            /\ pfl = r.pfl
            /\ fac = [strategy |-> p0.Strategy, d |-> a, err |-> r.err]
            /\ log = [x \in Addrs |->
                         IF x = a THEN Configured("newDispatcher", p0.Conns.arr) ELSE NoLog]
            /\ pc = [t \in Threads |-> "idle"]
            /\ loc = [t \in Threads |-> NoLoc]
            /\ gens = {p0.Conns.arr}
            /\ tag = NoTag

ConcInit == BuiltFrom(WeightProfiles)

\* SetProfile, line 73: pfl.Conns.Sort()
SP_Sort(c, p) ==
    /\ pc[c] = "idle"
    /\ pfl' = [p EXCEPT !.Conns = Sort(p.Conns)]
    /\ loc' = [loc EXCEPT ![c].pfl = [p EXCEPT !.Conns = Sort(p.Conns)],
                          ![c].decl = p.Conns.arr]
    /\ gens' = gens \cup {p.Conns.arr}
    /\ Goto(c, "sp_lock")
    /\ UNCHANGED <<heap, ref, fac, log, tag>>

\* SetProfile, line 74: wd.Lock(), the writer, once no other writer holds
\* the lock, announcing itself
SP_Lock(c) ==
    /\ pc[c] = "sp_lock"
    /\ ~heap[Src].mu.w
    /\ heap' = [heap EXCEPT ![Src].mu.w = TRUE]
    /\ Goto(c, "sp_wait")
    /\ UNCHANGED <<ref, pfl, fac, log, loc, gens, tag>>

\* line 74: wd.Lock() returning once no reader is inside
SP_LockWait(c) ==
    /\ pc[c] = "sp_wait"
    /\ heap[Src].mu.r = 0
    /\ Goto(c, "sp_conns")
    /\ UNCHANGED <<heap, ref, pfl, fac, log, loc, gens, tag>>

Other(f) == IF f = "arr" THEN "len" ELSE "arr"

\* SetProfile, line 75: wd.conns = pfl.Conns.Clone(), one header word f.
SP_StoreConns(c, f) ==
    /\ pc[c] \in {"sp_conns", "sp_" \o f}
    /\ LET new == Clone(loc[c].pfl.Conns)
       IN  heap' = [heap EXCEPT ![Src].conns[f] = new[f]]
    /\ tag' = [tag EXCEPT ![f] = @ + 1]
    /\ Goto(c, IF pc[c] = "sp_conns" THEN "sp_" \o Other(f) ELSE "sp_idx")
    /\ UNCHANGED <<ref, pfl, fac, log, loc, gens>>

\* SetProfile, line 76: wd.nextConnIdx = 0
SP_Idx(c) ==
    /\ pc[c] = "sp_idx"
    /\ heap' = [heap EXCEPT ![Src].nextConnIdx = 0]
    /\ tag' = [tag EXCEPT !.idx = tag.arr]
    /\ Goto(c, "sp_unlock")
    /\ UNCHANGED <<ref, pfl, fac, log, loc, gens>>

\* SetProfile returning without its wd.Unlock() line.
SP_UnlockLeak(c) ==
    /\ pc[c] = "sp_unlock"
    /\ log' = [log EXCEPT ![Src] = Configured("SetProfile", loc[c].decl)]
    /\ loc' = [loc EXCEPT ![c] = NoLoc]
    /\ Goto(c, "done")
    /\ UNCHANGED <<heap, ref, pfl, fac, gens, tag>>

\* SetProfile, lines 77-78: wd.Unlock(); return
SP_Unlock(c) ==
    /\ pc[c] = "sp_unlock"
    /\ heap' = [heap EXCEPT ![Src].mu.w = FALSE]
    /\ log' = [log EXCEPT ![Src] = Configured("SetProfile", loc[c].decl)]
    /\ loc' = [loc EXCEPT ![c] = NoLoc]
    /\ Goto(c, "done")
    /\ UNCHANGED <<ref, pfl, fac, gens, tag>>

\* GetInstance, line 81: the call is made
GI_Call(t) ==
    /\ pc[t] = "idle"
    /\ Src # 0
    /\ loc[t].calls < MaxCalls
    /\ loc' = [loc EXCEPT ![t].late = pc[Config] = "done", ![t].calls = @ + 1]
    /\ Goto(t, "gi_lock")
    /\ UNCHANGED <<heap, ref, pfl, fac, log, gens, tag>>

\* GetInstance entering its read section without waiting for the writer.
GI_RLockNoWait(t) ==
    /\ pc[t] = "gi_lock"
    /\ heap' = [heap EXCEPT ![Src].mu.r = @ + 1]
    /\ Goto(t, "gi_clone")
    /\ UNCHANGED <<ref, pfl, fac, log, loc, gens, tag>>

\* GetInstance, line 82: wd.RLock(), which waits while a writer is announced
GI_RLock(t) ==
    /\ pc[t] = "gi_lock"
    /\ RLockFree(heap[Src].mu)
    /\ heap' = [heap EXCEPT ![Src].mu.r = @ + 1]
    /\ Goto(t, "gi_clone")
    /\ UNCHANGED <<ref, pfl, fac, log, loc, gens, tag>>

\* GetInstance, line 83: wdInst := &WeightDispatcher{conns: wd.conns.Clone()}
GI_Clone(t) ==
    /\ pc[t] = "gi_clone"
    /\ LET a == InstanceAddr(t)
       IN  \/ /\ \E w \in GetInstances(heap[Src]) : heap' = [heap EXCEPT ![a] = w]
              /\ ref' = [ref EXCEPT ![t] = a]
              /\ log' = [log EXCEPT ![a] = Configured("GetInstance", log[Src].decl)]
              /\ Goto(t, "gi_unlock")
           \/ /\ ~WithinArray(heap[Src].conns)
              /\ Goto(t, "panic")
              /\ UNCHANGED <<heap, ref, log>>
    /\ loc' = [loc EXCEPT ![t].garr = tag.arr, ![t].glen = tag.len]
    /\ UNCHANGED <<pfl, fac, gens, tag>>

\* GetInstance, lines 84-85: wd.RUnlock(); return wdInst
GI_RUnlock(t) ==
    /\ pc[t] = "gi_unlock"
    /\ heap' = [heap EXCEPT ![Src].mu.r = @ - 1]
    /\ loc' = [loc EXCEPT ![t] = Returns(t)]
    /\ Goto(t, "idle")
    /\ UNCHANGED <<ref, pfl, fac, log, gens, tag>>

\* NextConnID on the shared selector, line 89.  The index expression
\* loads three words, the array pointer and the length of wd.conns and
\* wd.nextConnIdx, one at a time and in an order that is the compiler's
\* choice; need holds the words a call has yet to load.
Words == {"arr", "len", "idx"}

\* The values a thread holds once it has loaded word f as well.
Load(l, f) ==
    CASE f = "arr" -> [l EXCEPT !.conns.arr = heap[Src].conns.arr, !.garr = tag.arr]
      [] f = "len" -> [l EXCEPT !.conns.len = heap[Src].conns.len, !.glen = tag.len]
      [] f = "idx" -> [l EXCEPT !.idx = heap[Src].nextConnIdx, !.gidx = tag.idx]

\* line 89: the load of word f, not the last one; the first load begins
\* the call.
NC_Load(t, f) ==
    /\ pc[t] \in {"idle", "nc_load"}
    /\ Src # 0
    /\ IF pc[t] = "idle"
       THEN /\ loc[t].calls < MaxCalls
            /\ loc' = [loc EXCEPT ![t] = [Load(@, f) EXCEPT
                                            !.calls = @ + 1,
                                            !.late = pc[Config] = "done",
                                            !.need = Words \ {f}]]
       ELSE /\ f \in loc[t].need
            /\ loc[t].need # {f}
            /\ loc' = [loc EXCEPT ![t] = [Load(@, f) EXCEPT !.need = @ \ {f}]]
    /\ Goto(t, "nc_load")
    /\ UNCHANGED <<heap, ref, pfl, fac, log, gens, tag>>

\* line 89: the load of the last word, the bounds check on the values
\* loaded and connID = wd.conns[wd.nextConnIdx].ID
NC_Index(t) ==
    /\ pc[t] = "nc_load"
    /\ \E f \in Words :
          /\ loc[t].need = {f}
          /\ LET l == [Load(loc[t], f) EXCEPT !.need = {}]
             IN  \E o \in IndexOutcomes(l.conns, l.idx) :
                     /\ loc' = [loc EXCEPT ![t] = [l EXCEPT !.ret = o]]
                     /\ Goto(t, IF o = "panic" THEN "panic" ELSE "nc_inc")
    /\ UNCHANGED <<heap, ref, pfl, fac, log, gens, tag>>

\* What a thread still holds of line 89 once connID is set: the identifier
\* to return, the length and the cursor it loaded.
Indexed(l) ==
    [NoLoc EXCEPT !.conns.len = l.conns.len, !.idx = l.idx, !.gidx = l.gidx,
                  !.ret = l.ret, !.calls = l.calls]

\* incrNextConnIdx, line 66: wd.nextConnIdx++, the load, unless the value
\* loaded at line 89 is used
NC_IncLoad(t) ==
    /\ pc[t] = "nc_inc"
    /\ \E v \in {heap[Src].nextConnIdx, loc[t].idx} :
          loc' = [loc EXCEPT ![t] = [Indexed(@) EXCEPT !.tmp = v]]
    /\ Goto(t, "nc_incw")
    /\ UNCHANGED <<heap, ref, pfl, fac, log, gens, tag>>

\* line 66: wd.nextConnIdx++, the store; the thread now holds the value it
\* stored and the length it loaded at line 89
NC_IncStore(t) ==
    /\ pc[t] = "nc_incw"
    /\ heap' = [heap EXCEPT ![Src].nextConnIdx = loc[t].tmp + 1]
    /\ tag' = [tag EXCEPT !.idx = loc[t].gidx]
    /\ loc' = [loc EXCEPT ![t].idx = loc[t].tmp + 1, ![t].tmp = 0,
                          ![t].need = {"idx", "len"}]
    /\ Goto(t, "nc_cmp")
    /\ UNCHANGED <<ref, pfl, fac, log, gens>>

\* line 67: if wd.nextConnIdx > len(wd.conns)-1, one operand loaded again
\* ahead of the other
NC_CmpLoad(t, f) ==
    /\ pc[t] = "nc_cmp"
    /\ loc[t].need = {"idx", "len"}
    /\ f \in loc[t].need
    /\ loc' = [loc EXCEPT
                  ![t].idx = IF f = "idx" THEN heap[Src].nextConnIdx ELSE @,
                  ![t].conns.len = IF f = "len" THEN heap[Src].conns.len ELSE @,
                  ![t].need = @ \ {f}]
    /\ UNCHANGED <<heap, ref, pfl, fac, log, pc, gens, tag>>

\* line 67: the comparison, each operand not loaded again yet either loaded
\* now or the value the thread already holds
NC_Cmp(t) ==
    /\ pc[t] = "nc_cmp"
    /\ \E i \in {loc[t].idx} \cup
                 (IF "idx" \in loc[t].need THEN {heap[Src].nextConnIdx} ELSE {}),
          n \in {loc[t].conns.len} \cup
                 (IF "len" \in loc[t].need THEN {heap[Src].conns.len} ELSE {}) :
          IF i > n - 1
          THEN /\ Goto(t, "nc_reset")
               /\ loc' = [loc EXCEPT ![t] = [Indexed(@) EXCEPT !.conns.len = 0,
                                                               !.idx = 0]]
          ELSE Goto(t, "idle") /\ loc' = [loc EXCEPT ![t] = Returns(t)]
    /\ UNCHANGED <<heap, ref, pfl, fac, log, gens, tag>>

\* line 68: wd.nextConnIdx = 0
NC_Reset(t) ==
    /\ pc[t] = "nc_reset"
    /\ heap' = [heap EXCEPT ![Src].nextConnIdx = 0]
    /\ tag' = [tag EXCEPT !.idx = loc[t].gidx]
    /\ loc' = [loc EXCEPT ![t] = Returns(t)]
    /\ Goto(t, "idle")
    /\ UNCHANGED <<ref, pfl, fac, log, gens>>

\* A SetProfile call by goroutine c, with a profile of ps.
SetProfileStep(c, ps) ==
    \/ \E p \in ps : SP_Sort(c, p)
    \/ SP_Lock(c)
    \/ SP_LockWait(c)
    \/ \E f \in {"arr", "len"} : SP_StoreConns(c, f)
    \/ SP_Idx(c)
    \/ SP_Unlock(c)

GetInstanceStep(t) == GI_Call(t) \/ GI_RLock(t) \/ GI_Clone(t) \/ GI_RUnlock(t)

NextConnIDStep(t) ==
    \/ \E f \in Words : NC_Load(t, f)
    \/ NC_Index(t)
    \/ NC_IncLoad(t)
    \/ NC_IncStore(t)
    \/ \E f \in {"idx", "len"} : NC_CmpLoad(t, f)
    \/ NC_Cmp(t)
    \/ NC_Reset(t)

\* Workers on their clones while the shared selector is reconfigured.
ConcNext ==
    \/ SetProfileStep(Config, WeightProfiles)
    \/ \E t \in Workers : GetInstanceStep(t)
    \/ \E t \in Workers : NextConnIDCall(t)

ConcSpec == ConcInit /\ [][ConcNext]_vars

\* The profiles of every length whose connections all carry the lowest
\* weight: what the lock does depends on no connection.
LockProfiles ==
    { p \in WeightProfiles :
        \A i \in 1..p.Conns.len : \A w \in Weights : p.Conns.arr[i].Weight <= w }

\* Two goroutines each make a SetProfile call on the shared selector while
\* the workers clone it.
LockInit == BuiltFrom(LockProfiles)

LockNext ==
    \/ \E c \in Configs : SetProfileStep(c, LockProfiles)
    \/ \E t \in Workers : GetInstanceStep(t)

\* Goroutines are scheduled fairly and nothing here waits for I/O: a call
\* that has been made takes its next step whenever it can.  Whether a call
\* is made at all is up to the caller.
Fairness ==
    /\ \A c \in Configs :
          /\ WF_vars(SP_Lock(c))
          /\ WF_vars(SP_LockWait(c))
          /\ WF_vars(\E f \in {"arr", "len"} : SP_StoreConns(c, f))
          /\ WF_vars(SP_Idx(c))
          /\ WF_vars(SP_Unlock(c))
    /\ \A t \in Workers :
          /\ WF_vars(GI_RLock(t))
          /\ WF_vars(GI_Clone(t))
          /\ WF_vars(GI_RUnlock(t))

FairSpec == LockInit /\ [][LockNext]_vars /\ Fairness

\* Callers on the shared selector itself while it is reconfigured and cloned.
RaceNext ==
    \/ SetProfileStep(Config, WeightProfiles)
    \/ GetInstanceStep("c1")
    \/ \E t \in Callers : NextConnIDStep(t)

RaceSpec == ConcInit /\ [][RaceNext]_vars

(***************************************************************************)
(* The canonical order of a declared connection list, stated without Sort: *)
(* connection i comes before connection j when it is heavier, or as heavy  *)
(* and declared earlier.                                                   *)
(***************************************************************************)
Before(decl, i, j) ==
    \/ decl[i].Weight > decl[j].Weight
    \/ decl[i].Weight = decl[j].Weight /\ i < j

RankOf(decl, i) == Cardinality({ j \in 1..Len(decl) : Before(decl, j, i) })

\* The ID of the connection at position k (from 0) of the canonical order.
Ranked(decl, k) == decl[CHOOSE i \in 1..Len(decl) : RankOf(decl, i) = k].ID

Live == { ref[h] : h \in Holders } \ {0}

Recognized == {MetaWeight}

\* C1: on a selector built by newDispatcher from a profile of N >= 1
\* connections, the i-th NextConnID call returns the connection at position
\* (i-1) mod N of the weight-descending, declared-order-on-ties order: the
\* first N calls return every identifier once, in that order, and call N+1
\* returns what call 1 returned.
C1_RotationInWeightOrder ==
    \A a \in Live :
        log[a].by = "newDispatcher" =>
            \A i \in 1..Len(log[a].rets) :
                log[a].rets[i] = Ranked(log[a].decl, (i - 1) % Len(log[a].decl))

\* A selector built from a profile whose heaviest connection is not the first
\* declared has been called N+1 times.
C1_Witness ==
    \E a \in Live :
        /\ log[a].by = "newDispatcher"
        /\ Len(log[a].decl) >= 2
        /\ Len(log[a].rets) = Len(log[a].decl) + 1
        /\ log[a].rets[1] # log[a].decl[1].ID
        /\ log[a].rets[Len(log[a].rets)] = log[a].rets[1]

\* C5: after SetProfile the cursor is 0, and the first NextConnID call that
\* follows returns the heaviest (first declared on ties) connection of the
\* new profile.
C5_FirstAfterSetProfile ==
    \A a \in Live :
        log[a].by = "SetProfile" =>
            /\ log[a].rets = <<>> => heap[a].nextConnIdx = 0
            /\ log[a].rets # <<>> => log[a].rets[1] = Ranked(log[a].decl, 0)

\* SetProfile has installed a profile whose heaviest connection is not the
\* first declared, and NextConnID has been called on the selector since.
C5_Witness ==
    \E a \in Live :
        /\ log[a].by = "SetProfile"
        /\ Len(log[a].rets) = 1
        /\ log[a].rets[1] # log[a].decl[1].ID
        /\ log[a].rets[1] = heap[a].conns.arr[1].ID

\* C6: a clone returned by GetInstance has cursor 0, and its first
\* NextConnID call returns the first connection of the pool the source held
\* when it was cloned, wherever the source's cursor stood.
C6_CloneStartsAtFirst ==
    \A a \in Live :
        log[a].by = "GetInstance" =>
            /\ log[a].rets = <<>> => heap[a].nextConnIdx = 0
            /\ log[a].rets # <<>> => log[a].rets[1] = Ranked(log[a].decl, 0)

\* A clone has made its first call while the source's cursor is off 0.
C6_Witness ==
    \E c \in Clients :
        /\ ref[c] # 0 /\ ref[Shared] # 0 /\ ref[c] # ref[Shared]
        /\ log[ref[c]].by = "GetInstance"
        /\ Len(log[ref[c]].rets) = 1
        /\ heap[ref[Shared]].nextConnIdx # 0
        /\ heap[ref[c]].conns = heap[ref[Shared]].conns

\* Some selector held by a holder in hs is changed by the step.
Touched(hs) == \E h \in hs : ref[h] # 0 /\ heap'[ref[h]] # heap[ref[h]]

\* C7: a NextConnID call on a clone changes neither the source nor the other
\* clone, and a SetProfile or NextConnID call on the source changes no clone
\* (stated contrapositively: a step that changes another holder's selector is
\* no such call).
C7_CloneIndependent ==
    [][ /\ \A c \in Clients : Touched(Holders \ {c}) => ~NextConnIDCall(c)
        /\ Touched(Clients) =>
              ~(NextConnIDCall(Shared) \/ \E p \in WeightProfiles : SetProfileCall(p))
      ]_vars

\* Source and two clones are three objects, the source reconfigured since the
\* first clone was taken and the clones at different cursors.
C7_Witness ==
    /\ \A h \in Holders : ref[h] # 0
    /\ Cardinality(Live) = Cardinality(Holders)
    /\ heap[ref["c1"]].conns # heap[ref[Shared]].conns
    /\ heap[ref["c1"]].conns = heap[ref["c2"]].conns
    /\ heap[ref["c1"]].nextConnIdx # heap[ref["c2"]].nextConnIdx

\* C8: the cursor of every selector is an index of its pool, and it is 0
\* right after SetProfile.
C8_CursorInRange ==
    \A a \in Live :
        /\ 0 <= heap[a].nextConnIdx
        /\ heap[a].nextConnIdx < heap[a].conns.len
        /\ (log[a].by = "SetProfile" /\ log[a].rets = <<>>) => heap[a].nextConnIdx = 0

\* A selector that has wrapped around: called N+1 times, cursor at the last index.
C8_Witness ==
    \E a \in Live :
        /\ heap[a].conns.len >= 2
        /\ Len(log[a].rets) = heap[a].conns.len + 1
        /\ heap[a].nextConnIdx = 1

\* C9: MaxConns is the number of connections of the profile last applied
\* to the selector, whatever NextConnID calls followed.
C9_MaxConnsIsProfileSize ==
    \A a \in Live :
        log[a].by \in {"newDispatcher", "SetProfile"} =>
            MaxConns(heap[a]) = Len(log[a].decl)

\* SetProfile has changed the size of the pool and NextConnID was called since.
C9_Witness ==
    \E a \in Live :
        /\ log[a].by = "SetProfile"
        /\ log[a].rets # <<>>
        /\ MaxConns(heap[a]) = 1
        /\ pfl.Conns.len = 1

\* C10: newDispatcher returns no selector and the unsupported-strategy error
\* for a strategy it does not know, a selector and no error for one it knows.
C10_FactoryResult ==
    fac.strategy # "" =>
        IF fac.strategy \in Recognized
        THEN fac.d # 0 /\ fac.err = NoErr
        ELSE /\ fac.d = 0
             /\ fac.err = "unsupported dispatch strategy: <" \o fac.strategy \o ">"
             /\ ref[Shared] = 0

\* The factory has refused a profile.
C10_Witness ==
    /\ fac.strategy = "*random"
    /\ fac.d = 0
    /\ fac.err # NoErr

ElemsOf(arr) == { arr[i] : i \in 1..Len(arr) }
IDsOf(arr) == { arr[i].ID : i \in 1..Len(arr) }

\* arr holds exactly the connections declared in decl, in some order.
IsPermOf(arr, decl) == Len(arr) = Len(decl) /\ ElemsOf(arr) = ElemsOf(decl)

\* C2: while workers clone the shared selector and call NextConnID on their
\* clones and SetProfile runs on the shared selector, every clone holds the
\* whole pool of one generation (the connections of one applied profile, in
\* a well-formed slice), its cursor is an index of that pool, and no call on
\* it has panicked or returned anything but an identifier of that pool.
C2_ClonesOfOneGeneration ==
    \A t \in Workers :
        /\ pc[t] # "panic"
        /\ ref[t] # 0 =>
            LET w == heap[ref[t]]
            IN  /\ w.conns.len = Len(w.conns.arr)
                /\ \E g \in gens : IsPermOf(w.conns.arr, g)
                /\ 0 <= w.nextConnIdx /\ w.nextConnIdx < w.conns.len
                /\ log[ref[t]].last \in IDsOf(w.conns.arr) \cup {""}

\* SetProfile has returned; one worker rotates over a clone of the old pool,
\* the other over a clone of the new one.
C2_Witness ==
    /\ pc[Config] = "done"
    /\ ref["c1"] # 0 /\ ref["c2"] # 0
    /\ heap[ref["c1"]].conns.len # heap[ref["c2"]].conns.len
    /\ heap[ref["c2"]].conns = heap[Src].conns
    /\ log[ref["c1"]].last # "" /\ log[ref["c2"]].last # ""

\* C3 (as claimed): a NextConnID call on the shared selector uses a slice
\* header and a cursor written by one generation, and so does the header a
\* GetInstance call clones.
C3_SetProfileAtomic ==
    /\ \A t \in Callers :
          pc[t] \in {"nc_inc", "panic"} =>
              loc[t].garr = loc[t].glen /\ loc[t].glen = loc[t].gidx
    /\ \A t \in Workers :
          pc[t] = "gi_unlock" => loc[t].garr = loc[t].glen

RECURSIVE CallsMade(_)
CallsMade(ts) ==
    IF ts = {} THEN 0
    ELSE LET t == CHOOSE x \in ts : TRUE
         IN  loc[t].calls + CallsMade(ts \ {t})

\* C4 (as claimed): with no SetProfile under way, a NextConnID call on the
\* shared selector never indexes with a cursor outside the pool, and once
\* the calls made have returned the cursor has advanced once per call.
C4_CursorExclusive ==
    pc[Config] = "idle" =>
        /\ \A t \in Callers :
              pc[t] \in {"nc_inc", "panic"} => loc[t].idx < loc[t].conns.len
        /\ (\A t \in Callers : pc[t] = "idle") =>
              heap[Src].nextConnIdx = CallsMade(Callers) % heap[Src].conns.len

\* C11 (as claimed): a newDispatcher or SetProfile call leaves the caller's
\* profile, the order of its connection list included, as it was given,
\* whether or not the factory accepts the strategy.
C11_ProfileUnchanged ==
    [][ /\ \A p \in ValidProfiles : NewDispatcherCall(p) => pfl' = p
        /\ \A p \in WeightProfiles : SetProfileCall(p) => pfl' = p
      ]_vars

\* C12 (as claimed): whatever profiles newDispatcher and SetProfile are
\* given, profiles with no connection included, no selector holds an empty
\* pool: MaxConns is at least 1.
C12_PoolNeverEmpty ==
    \A a \in Live : MaxConns(heap[a]) >= 1

\* C16: a NextConnID call on a selector whose pool is empty panics, and
\* leaves the pool and the cursor of every selector as they were.
C16_EmptyPoolPanics ==
    [][ \A h \in Holders :
           (ref[h] # 0 /\ heap[ref[h]].conns.len = 0 /\ NextConnIDCall(h)) =>
               (log'[ref[h]].last = "panic" /\ heap' = heap)
      ]_vars

\* NextConnID has been called on a selector that SetProfile left with an
\* empty pool.
C16_Witness ==
    \E a \in Live :
        /\ log[a].by = "SetProfile"
        /\ heap[a].conns.len = 0
        /\ log[a].last = "panic"
        /\ heap[a].nextConnIdx = 0

\* C13 (as claimed): once SetProfile has returned, a call that starts
\* afterwards observes the new generation: NextConnID on the shared selector
\* returns an identifier of the new pool, GetInstance returns a clone of the
\* new pool, and MaxConns its length.
C13_ObservesNewGeneration ==
    pc[Config] = "done" =>
        /\ \A t \in Callers :
              (loc[t].late /\ pc[t] \in {"nc_inc", "panic"}) =>
                  loc[t].ret \in IDsOf(pfl.Conns.arr)
        /\ \A t \in Workers :
              (loc[t].late /\ pc[t] = "gi_unlock") =>
                  heap[ref[t]].conns = Clone(pfl.Conns)
        /\ MaxConns(heap[Src]) = pfl.Conns.len

\* C14: a GetInstance call changes neither the pool nor the cursor of its
\* source, nor what is recorded of it, so the source's later NextConnID
\* calls return what they would have returned without it (stated
\* contrapositively: a step that changes the source is no GetInstance call).
C14_GetInstancePure ==
    [][ (/\ ref[Shared] # 0
         /\ \/ heap'[ref[Shared]] # heap[ref[Shared]]
            \/ log'[ref[Shared]] # log[ref[Shared]]) =>
            ~(\E c \in Clients : GetInstanceCall(c))
      ]_vars

\* Both clients have cloned a source whose cursor is off 0, and the source
\* has gone on to complete its rotation and wrap around.
C14_Witness ==
    /\ \A c \in Clients : ref[c] # 0 /\ log[ref[c]].by = "GetInstance"
    /\ \A c \in Clients : log[ref[c]].rets = <<>>
    /\ ref[Shared] # 0
    /\ log[ref[Shared]].by = "newDispatcher"
    /\ Len(log[ref[Shared]].rets) = MaxPool + 1
    /\ heap[ref[Shared]].nextConnIdx # 0

\* The profile SetProfile was last given, as declared.
Declared(a) == [Conns |-> MkSlice(log[a].decl), Strategy |-> MetaWeight]

\* C15: on a selector configured by SetProfile, with or without NextConnID
\* calls since, applying the same profile again (as declared, or as the
\* first call left the caller's profile) gives the sorted pool with cursor
\* 0 that the first application gave, and applying it once more changes
\* nothing.
C15_SetProfileIdempotent ==
    \A a \in Live :
        log[a].by = "SetProfile" =>
            LET again == SetProfile(heap[a], Declared(a)).wd
            IN  /\ again.conns = heap[a].conns
                /\ again.nextConnIdx = 0
                /\ log[a].rets = <<>> => again = heap[a]
                /\ SetProfile(again, Declared(a)).wd = again
                /\ SetProfile(heap[a], pfl).wd = again

\* SetProfile installed a profile declared out of weight order, and
\* NextConnID has moved the cursor since.
C15_Witness ==
    \E a \in Live :
        /\ log[a].by = "SetProfile"
        /\ heap[a].conns.len = 2
        /\ heap[a].conns.arr # log[a].decl
        /\ heap[a].nextConnIdx = 1
        /\ pfl.Conns.arr = heap[a].conns.arr

\* A writer is between Lock and Unlock; a reader between RLock and RUnlock.
WriterIn(c) == pc[c] \in {"sp_conns", "sp_arr", "sp_len", "sp_idx", "sp_unlock"}
ReaderIn(t) == pc[t] \in {"gi_clone", "gi_unlock"}

\* C17: no SetProfile writer section overlaps a GetInstance reader section
\* or the writer section of another SetProfile call, the lock is free
\* whenever no call is in progress, and under fair scheduling every
\* SetProfile call that has been made returns and every GetInstance call
\* that has been made, one waiting behind a writer included, returns.
C17_LockReleased ==
    /\ [](/\ \A c \in Configs :
                WriterIn(c) =>
                    /\ \A t \in Workers : ~ReaderIn(t)
                    /\ \A d \in Configs \ {c} : ~WriterIn(d)
          /\ (\A t \in Threads : pc[t] \in {"idle", "done"}) =>
                 WLockFree(heap[Src].mu))
    /\ \A c \in Configs : (pc[c] = "sp_lock" ~> pc[c] = "done")
    /\ \A t \in Workers : (pc[t] = "gi_lock" ~> pc[t] = "idle")

\* One SetProfile call has announced itself and waits for a GetInstance
\* call inside its reader section, while the other SetProfile call waits
\* for the lock and the other GetInstance call waits behind the writer.
C17_Witness ==
    /\ pc[Config] = "sp_wait"
    /\ heap[Src].mu.w
    /\ heap[Src].mu.r = 1
    /\ pc["cfg2"] = "sp_lock"
    /\ ReaderIn("c1")
    /\ pc["c2"] = "gi_lock"

====
